---- MODULE Spec2Model ----
(***************************************************************************)
(* Model of arviz's trace-normalisation layer (arviz/utils/xarray_utils.py)*)
(* and of the reference-value / ROPE annotations of the posterior plot     *)
(* (arviz/plots/posteriorplot.py).                                         *)
(*                                                                         *)
(* The functions are synchronous and hold no module state.  The state of   *)
(* the model is the caller's environment: the coords dict and the dims     *)
(* dict the caller owns (mutable Python objects that the library receives  *)
(* by reference), the call in progress and what it returned or raised.     *)
(* Calls are made one at a time: the caller makes a call when it is idle   *)
(* (call.fn = "none") and takes the result before the next one.            *)
(* An array is represented by its shape and dtype, a dict by a function or *)
(* by a sequence of items where the iteration order matters.               *)
(***************************************************************************)
EXTENDS Integers, Sequences, FiniteSets, TLC

VARIABLES coords, dims, call, ret
vars == <<coords, dims, call, ret>>

\* ------------------------------------------------------------------ bounds
MaxRank == 4
MaxAxisLen == 2
MaxDictRank == 3
MaxChains == 2
MaxKeys == 2
MaxEntries == 2

\* ------------------------------------------------------------ basic values
\* None carries an empty payload so that a cell can be built from it
None == [ty |-> "None", v |-> <<>>]
\* a dict / list object passed by reference
Dict(d) == [ty |-> "dict", v |-> d]
List(l) == [ty |-> "list", v |-> l]
EmptyDict == [k \in {} |-> 0]

Raise(exc, msg) == [ty |-> "raise", exc |-> exc, msg |-> msg]
IsRaise(r) == r.ty = "raise"

Range(s) == {s[i] : i \in 1..Len(s)}

\* np.arange(n), as the sequence 0..n-1
arange(n) == [i \in 1..n |-> i - 1]

ndarray(shape, dtype) == [ty |-> "ndarray", shape |-> shape, dtype |-> dtype]

\* dict.get(key) with the default None
dict_get(d, key) == IF key \in DOMAIN d THEN d[key] ELSE None

\* d[key] = value
dict_set(d, key, value) == [k \in (DOMAIN d) \cup {key} |-> IF k = key THEN value ELSE d[k]]

\* ---------------------------------------------------- numpy shape functions
\* np.atleast_3d: () -> (1,1,1), (N,) -> (1,N,1), (M,N) -> (M,N,1)
atleast_3d(shape) ==
    CASE Len(shape) = 0 -> <<1, 1, 1>>
      [] Len(shape) = 1 -> <<1, shape[1], 1>>
      [] Len(shape) = 2 -> <<shape[1], shape[2], 1>>
      [] OTHER -> shape

\* np.squeeze(ary, axis=-1): drops the last axis
squeeze_last(shape) == SubSeq(shape, 1, Len(shape) - 1)

\* np.expand_dims(v, 0)
expand_dims0(shape) == <<1>> \o shape

\* np.swapaxes(values, 0, 1)
swapaxes01(shape) == <<shape[2], shape[1]>> \o SubSeq(shape, 3, Len(shape))

\* '{var_name}_dim_{idx}'.format(var_name=var_name, idx=idx)
dim_name(var_name, idx) == var_name \o "_dim_" \o ToString(idx)

\* --------------------------------------------------- references and copies
\* The local heap of one numpy_to_data_array call.  coords_arg / dims_arg
\* are the caller's objects; the other cells are created by the call.
\* A Python variable is a pointer: the name of a cell.
NewHeap(coords_val, dims_val) ==
    [coords_arg |-> coords_val.v, dims_arg |-> dims_val.v,
     default_dims |-> <<"chain", "draw">>,
     coords_local |-> EmptyDict, dims_local |-> <<>>, dims_cat |-> <<>>]

\* dims = list(dims): a fresh list with the same items
list_copy(h, p) == [heap |-> [h EXCEPT !["dims_local"] = h[p]], ptr |-> "dims_local"]

\* (a dict() that hands back the object it was given)
dict_alias(h, p) == [heap |-> h, ptr |-> p]
\* coords = dict(coords): a fresh dict with the same items
dict_copy(h, p) == [heap |-> [h EXCEPT !["coords_local"] = h[p]], ptr |-> "coords_local"]

\* xr.DataArray(ary, coords=coords, dims=dims): the number of dims must be
\* the rank of the data and each coordinate must be as long as its axis.
DataArray(shape, dtype, cds, dms) ==
    IF Len(dms) # Len(shape)
    THEN Raise("ValueError", "different number of dimensions on data and dims")
    ELSE IF \E i \in 1..Len(dms) : Len(cds[dms[i]]) # shape[i]
    THEN Raise("ValueError", "conflicting sizes for dimension")
    ELSE [ty |-> "DataArray", shape |-> shape, dtype |-> dtype, dims |-> dms, coords |-> cds]

\* The({e : x \in {v}}) is e with x bound to the value of v: the local
\* variable of a function body
The(S) == CHOOSE x \in S : TRUE

\* the loop of lines 149-151 from index i (1-based) on: append the generated
\* name to the list at pd and store its coordinate in the dict at pc
RECURSIVE append_dims(_, _, _, _, _, _)
append_dims(h, pd, pc, var_name, shape, i) ==
    IF i > Len(shape) THEN h
    ELSE The({append_dims(h2, pd, pc, var_name, shape, i + 1) :
                h2 \in {[h1 EXCEPT ![pc] = dict_set(h1[pc], h1[pd][Len(h1[pd])],
                                                    arange(shape[i]))] :
                           h1 \in {[h EXCEPT ![pd] = Append(h[pd],
                                                            dim_name(var_name, i - 1))]}}})

\* if key not in coords: coords[key] = value
set_default(h, pc, key, value) ==
    IF key \notin DOMAIN h[pc] THEN [h EXCEPT ![pc] = dict_set(h[pc], key, value)] ELSE h

\* lines 157-164, shared by both branches: chain/draw defaults, the
\* coordinate lookup per dim, and the DataArray itself
finish_data_array(h, pd, pc, shape, dtype) ==
    IF Len(shape) < 2
    THEN [out |-> Raise("ValueError", "not enough values to unpack"), heap |-> h]
    ELSE The({IF \E i \in 1..Len(h2[pd]) : h2[pd][i] \notin DOMAIN h2[pc]
              THEN [out |-> Raise("KeyError", "coords[key]"), heap |-> h2]
              ELSE [out |-> DataArray(shape, dtype,
                                      [key \in Range(h2[pd]) |-> h2[pc][key]], h2[pd]),
                    heap |-> h2] :
                h2 \in {set_default(h1, pc, "draw", arange(shape[2])) :
                           h1 \in {set_default(h, pc, "chain", arange(shape[1]))}}})

\* (squeezing whenever the trailing axis has length 1)
squeeze_any(can_squeeze, shape) == Len(shape) = 1 /\ shape[1] = 1
\* line 146: remove the trailing axis only if this call added it
should_squeeze(can_squeeze, shape) == can_squeeze /\ Len(shape) = 1 /\ shape[1] = 1

\* lines 134-151, the branch dims is None: coords = {}, dims = default_dims
infer_dims(h0, ary, var_name) ==
    LET can_squeeze == Len(ary.shape) < 3
        shape3 == IF can_squeeze THEN atleast_3d(ary.shape) ELSE ary.shape
        shape == SubSeq(shape3, 3, Len(shape3))
    IN [r |-> IF should_squeeze(can_squeeze, shape)
              THEN finish_data_array(h0, "default_dims", "coords_local",
                                     squeeze_last(shape3), ary.dtype)
              ELSE The({finish_data_array(h1, "default_dims", "coords_local",
                                          shape3, ary.dtype) :
                          h1 \in {append_dims(h0, "default_dims", "coords_local",
                                              var_name, shape, 1)}}),
        \* n_chains > n_samples
        warn |-> shape3[1] > shape3[2]]

\* lines 155-156: dims = default_dims + dims builds a new list
with_default_dims(h, pd) ==
    IF SubSeq(h[pd], 1, IF Len(h[pd]) < 2 THEN Len(h[pd]) ELSE 2) # h["default_dims"]
    THEN [heap |-> [h EXCEPT !["dims_cat"] = h["default_dims"] \o h[pd]], ptr |-> "dims_cat"]
    ELSE [heap |-> h, ptr |-> pd]

\* lines 153-156, the branch with dims given
given_dims(h0, ary, coords_val) ==
    The({IF coords_val = None
         THEN [r |-> [out |-> Raise("TypeError", "'NoneType' object is not iterable"),
                      heap |-> c1.heap],
               warn |-> FALSE]
         ELSE The({The({[r |-> finish_data_array(d.heap, d.ptr, c2.ptr, ary.shape, ary.dtype),
                         warn |-> FALSE] :
                          d \in {with_default_dims(c2.heap, c1.ptr)}}) :
                     c2 \in {dict_copy(c1.heap, "coords_arg")}}) :
           c1 \in {list_copy(h0, "dims_arg")}})

\* numpy_to_data_array(ary, var_name=, coords=, dims=).  coords_val / dims_val
\* are None or the caller's objects, Dict(..) / List(..).  The result carries
\* what the call returned or raised, whether the chains/draws warning was
\* issued, and the caller's two objects as the call left them.
numpy_to_data_array(ary, var_name, coords_val, dims_val) ==
    The({[out |-> res.r.out, warn |-> res.warn,
          coords_arg |-> IF coords_val = None THEN None ELSE Dict(res.r.heap.coords_arg),
          dims_arg |-> IF dims_val = None THEN None ELSE List(res.r.heap.dims_arg)] :
            res \in {IF dims_val = None THEN infer_dims(h0, ary, var_name)
                     ELSE given_dims(h0, ary, coords_val) :
                        h0 \in {NewHeap(coords_val, dims_val)}}})

\* xr.Dataset(data_vars=data_vars): a new object (id "new"; the objects the
\* caller holds have ids of their own)
Dataset(data_vars) == [ty |-> "Dataset", id |-> "new", data_vars |-> data_vars]

\* the loop of dict_to_dataset from item i on.  data is the sequence of the
\* dict's items in iteration order; dims_d is the dims dict in use.
RECURSIVE dict_to_dataset_loop(_, _, _, _, _, _)
dict_to_dataset_loop(data, i, coords_val, dims_d, data_vars, warned) ==
    IF i > Len(data)
    THEN [out |-> Dataset(data_vars), warn |-> warned,
          coords_arg |-> coords_val, dims_d |-> dims_d]
    ELSE The({IF IsRaise(n.r.out)
              THEN [out |-> n.r.out, warn |-> n.warned,
                    coords_arg |-> n.r.coords_arg, dims_d |-> n.dims_d]
              ELSE dict_to_dataset_loop(data, i + 1, n.r.coords_arg, n.dims_d,
                                        dict_set(data_vars, data[i].key, n.r.out),
                                        n.warned) :
                n \in {[r |-> r,
                        dims_d |-> IF data[i].key \in DOMAIN dims_d
                                   THEN [dims_d EXCEPT ![data[i].key] = r.dims_arg.v]
                                   ELSE dims_d,
                        warned |-> IF r.warn THEN warned \cup {data[i].key} ELSE warned] :
                          r \in {numpy_to_data_array(
                                     data[i].values, data[i].key, coords_val,
                                     \* dims.get(key)
                                     IF data[i].key \in DOMAIN dims_d
                                     THEN List(dims_d[data[i].key]) ELSE None)}}})

\* dict_to_dataset(data, coords=, dims=)
dict_to_dataset(data, coords_val, dims_val) ==
    The({[out |-> r.out, warn |-> r.warn, coords_arg |-> r.coords_arg,
          dims_arg |-> IF dims_val = None THEN None ELSE Dict(r.dims_d)] :
            r \in {dict_to_dataset_loop(data, 1, coords_val,
                                        IF dims_val = None THEN EmptyDict ELSE dims_val.v,
                                        EmptyDict, {})}})

\* ------------------------------------------------------------ InferenceData
\* InferenceData(**kwargs): a new container holding the groups whose dataset
\* is not None
InferenceData(kwargs) ==
    IF \E g \in DOMAIN kwargs : kwargs[g].ty \notin {"None", "Dataset"}
    THEN Raise("ValueError", "Arguments to InferenceData must be xarray Datasets")
    ELSE [ty |-> "InferenceData", id |-> "new",
          groups |-> [g \in {k \in DOMAIN kwargs : kwargs[k] # None} |-> kwargs[g]]]

\* InferenceData.from_netcdf(filename): the groups stored in the file
from_netcdf(file) ==
    IF file.content = None
    THEN Raise("OSError", "No such file or directory")
    ELSE file.content

\* getattr(inference_data, group, None)
getattr_group(inference_data, group) ==
    IF group \in DOMAIN inference_data.groups THEN inference_data.groups[group] ELSE None

\* ------------------------------------------------------------ the decorator
\* what a converter method hands back: whether the wrapped function ran, its
\* result, and the converter's coords / dims objects as it left them
MethodResult(called, r) ==
    [called |-> called, out |-> r.out, coords_arg |-> r.coords_arg, dims_arg |-> r.dims_arg]

\* requires(*props)(func)(cls); result stands for func(cls), which is only
\* looked at when every named attribute is set
requires(props, result, cls) ==
    IF \E i \in 1..Len(props) : cls[props[i]] = None
    THEN MethodResult(FALSE, [out |-> None, coords_arg |-> cls.coords, dims_arg |-> cls.dims])
    ELSE The({MethodResult(TRUE, r) : r \in {result}})

\* an attribute access on an attribute that is None
AttributeError(cls) ==
    [out |-> Raise("AttributeError", "'NoneType' object has no attribute"),
     coords_arg |-> cls.coords, dims_arg |-> cls.dims]

\* the items {k: np.expand_dims(v, 0) for k, v in d.items()}
expand_items(d) ==
    [i \in 1..Len(d) |->
        [key |-> d[i].key, values |-> ndarray(expand_dims0(d[i].values.shape), d[i].values.dtype)]]

\* ----------------------------------------------------------- PyMC3Converter
PyMC3Converter(trace, prior, posterior_predictive, coords_val, dims_val) ==
    [trace |-> trace, prior |-> prior, posterior_predictive |-> posterior_predictive,
     coords |-> coords_val, dims |-> dims_val]

\* pm.utils.get_default_varnames(varnames, include_transformed=False)
get_default_varnames(trace) ==
    SelectSeq(trace.varnames, LAMBDA v : v \notin trace.transformed)

PyMC3_posterior_body(self) ==
    IF self.trace = None THEN AttributeError(self)
    ELSE LET var_names == get_default_varnames(self.trace)
             data == [i \in 1..Len(var_names) |->
                        [key |-> var_names[i], values |-> self.trace.values[var_names[i]]]]
         IN dict_to_dataset(data, self.coords, self.dims)

PyMC3_sample_stats_body(self) ==
    IF self.trace = None THEN AttributeError(self)
    ELSE LET data == [i \in 1..Len(self.trace.stat_names) |->
                        [key |-> self.trace.stat_names[i],
                         values |-> self.trace.sampler_stats[self.trace.stat_names[i]]]]
         IN [out |-> dict_to_dataset(data, None, None).out,
             coords_arg |-> self.coords, dims_arg |-> self.dims]

PyMC3_posterior_predictive_body(self) ==
    IF self.posterior_predictive = None THEN AttributeError(self)
    ELSE dict_to_dataset(expand_items(self.posterior_predictive.v), self.coords, self.dims)

PyMC3_prior_body(self) ==
    IF self.prior = None THEN AttributeError(self)
    ELSE dict_to_dataset(expand_items(self.prior.v), self.coords, self.dims)

PyMC3_posterior_to_xarray(self) == requires(<<"trace">>, PyMC3_posterior_body(self), self)

PyMC3_sample_stats_to_xarray(self) == requires(<<"trace">>, PyMC3_sample_stats_body(self), self)

PyMC3_posterior_predictive_to_xarray(self) ==
    requires(<<"posterior_predictive">>, PyMC3_posterior_predictive_body(self), self)

\* (guarded by the wrong attribute)
PyMC3_prior_requires_trace(self) == requires(<<"trace">>, PyMC3_prior_body(self), self)
PyMC3_prior_to_xarray(self) == requires(<<"prior">>, PyMC3_prior_body(self), self)


\* ---------------------------------------------------------- PyStanConverter
\* np.vstack of one-dimensional arrays of equal length: one row per array
vstack(arys) == <<Len(arys), arys[1].shape[1]>>

\* ary.astype(dtype); astype(None) gives numpy's default float
astype(dtype) == IF dtype = None THEN "float64" ELSE dtype.v

Dtype(name) == [ty |-> "dtype", v |-> name]

\* the dtypes dict of sample_stats_to_xarray
stats_dtypes ==
    [k \in {"divergent__", "n_leapfrog__", "treedepth__"} |->
        IF k = "divergent__" THEN Dtype("bool") ELSE Dtype("int64")]

\* the rename_key dict of sample_stats_to_xarray
rename_key ==
    [k \in {"accept_stat__", "divergent__", "energy__", "lp__",
            "n_leapfrog__", "stepsize__", "treedepth__"} |->
        CASE k = "accept_stat__" -> "accept_stat"
          [] k = "divergent__" -> "diverging"
          [] k = "energy__" -> "energy"
          [] k = "lp__" -> "lp"
          [] k = "n_leapfrog__" -> "n_leapfrog"
          [] k = "stepsize__" -> "stepsize"
          [] k = "treedepth__" -> "treedepth"]

\* (a substitution that matches nothing)
re_sub_nothing(key) == key
\* re.sub('__$', "", key)
re_sub_trailing(key) ==
    IF Len(key) >= 2 /\ SubSeq(key, Len(key) - 1, Len(key)) = "__"
    THEN SubSeq(key, 1, Len(key) - 2)
    ELSE key

\* rename_key.get(key, re.sub('__$', "", key))
stat_name(key) == IF key \in DOMAIN rename_key THEN rename_key[key] ELSE re_sub_trailing(key)

\* j[key] for a chain's sampler parameters j (a sequence of items)
chain_lookup(j, key) == LET i == CHOOSE n \in 1..Len(j) : j[n].key = key IN j[i].values

\* the loop of lines 262-264 from key i of the first chain on; a later value
\* under the same name replaces the earlier one
RECURSIVE stats_items(_, _, _)
stats_items(sampler_params, i, data) ==
    IF i > Len(sampler_params[1]) THEN data
    ELSE LET key == sampler_params[1][i].key
             name == stat_name(key)
             rows == [c \in 1..Len(sampler_params) |-> chain_lookup(sampler_params[c], key)]
             item == [key |-> name,
                      values |-> ndarray(vstack(rows), astype(dict_get(stats_dtypes, key)))]
         IN stats_items(sampler_params, i + 1,
                        IF \E n \in 1..Len(data) : data[n].key = name
                        THEN [n \in 1..Len(data) |->
                                 IF data[n].key = name THEN item ELSE data[n]]
                        ELSE Append(data, item))

\* PyStanConverter.infer_dtypes: the names the integer pattern finds in the
\* generated quantities block (fit.int_decls), kept if they are model
\* parameters
infer_dtypes(self) ==
    [v \in {n \in Range(self.fit.int_decls) : n \in Range(self._var_names)} |-> "int"]

PyStan_posterior_body(self) ==
    IF self.fit = None THEN AttributeError(self)
    ELSE LET dtypes == infer_dtypes(self)
             \* fit.extract(self._var_names, dtypes=dtypes, permuted=False)
             data == [i \in 1..Len(self._var_names) |->
                        LET var_name == self._var_names[i]
                        IN [key |-> var_name,
                            values |-> ndarray(swapaxes01(self.fit.extract[var_name]),
                                               IF var_name \in DOMAIN dtypes
                                               THEN dtypes[var_name] ELSE "float64")]]
         IN dict_to_dataset(data, self.coords, self.dims)

PyStan_sample_stats_body(self) ==
    IF self.fit = None THEN AttributeError(self)
    ELSE IF Len(self.fit.sampler_params) = 0
    THEN [out |-> Raise("IndexError", "list index out of range"),
          coords_arg |-> self.coords, dims_arg |-> self.dims]
    ELSE dict_to_dataset(stats_items(self.fit.sampler_params, 1, <<>>),
                         self.coords, self.dims)

PyStan_posterior_to_xarray(self) == requires(<<"fit">>, PyStan_posterior_body(self), self)

PyStan_sample_stats_to_xarray(self) == requires(<<"fit">>, PyStan_sample_stats_body(self), self)

\* the converter with its coords / dims objects as a method left them
After(self, m) == [self EXCEPT !.coords = m.coords_arg, !.dims = m.dims_arg]

\* the method that builds a group of a converter
group_method(converter, name, self) ==
    CASE converter = "PyMC3" /\ name = "posterior" -> PyMC3_posterior_to_xarray(self)
      [] converter = "PyMC3" /\ name = "sample_stats" -> PyMC3_sample_stats_to_xarray(self)
      [] converter = "PyMC3" /\ name = "posterior_predictive" ->
             PyMC3_posterior_predictive_to_xarray(self)
      [] converter = "PyMC3" /\ name = "prior" -> PyMC3_prior_to_xarray(self)
      [] converter = "PyStan" /\ name = "posterior" -> PyStan_posterior_to_xarray(self)
      [] converter = "PyStan" /\ name = "sample_stats" -> PyStan_sample_stats_to_xarray(self)

\* evaluates the group methods in the order given (the order of the dict
\* display in to_inference_data) until one raises, then builds the container
RECURSIVE build_groups(_, _, _, _, _, _)
build_groups(converter, names, i, self, kwargs, called) ==
    IF i > Len(names)
    THEN [out |-> InferenceData(kwargs), kwargs |-> kwargs, called |-> called,
          coords_arg |-> self.coords, dims_arg |-> self.dims]
    ELSE The({IF IsRaise(m.out)
              THEN [out |-> m.out, kwargs |-> kwargs,
                    called |-> IF m.called THEN called \cup {names[i]} ELSE called,
                    coords_arg |-> m.coords_arg, dims_arg |-> m.dims_arg]
              ELSE build_groups(converter, names, i + 1, After(self, m),
                                dict_set(kwargs, names[i], m.out),
                                IF m.called THEN called \cup {names[i]} ELSE called) :
                m \in {group_method(converter, names[i], self)}})

PyMC3_to_inference_data(self) ==
    build_groups("PyMC3", <<"posterior", "sample_stats", "posterior_predictive", "prior">>,
                 1, self, EmptyDict, {})

pymc3_to_inference_data(trace, prior, posterior_predictive, coords_val, dims_val) ==
    PyMC3_to_inference_data(
        PyMC3Converter(trace, prior, posterior_predictive, coords_val, dims_val))

PyStan_to_inference_data(self) ==
    build_groups("PyStan", <<"posterior", "sample_stats">>, 1, self, EmptyDict, {})

\* PyStanConverter(fit=, coords=, dims=).to_inference_data(); the constructor
\* reads fit.model_pars
pystan_to_inference_data(fit, coords_val, dims_val) ==
    IF fit = None
    THEN [out |-> Raise("AttributeError", "'NoneType' object has no attribute"),
          kwargs |-> EmptyDict, called |-> {},
          coords_arg |-> coords_val, dims_arg |-> dims_val]
    ELSE PyStan_to_inference_data(
             [fit |-> fit, coords |-> coords_val, dims |-> dims_val,
              _var_names |-> fit.model_pars])

\* ---------------------------------------------------------------- dispatch
\* isinstance(obj, K) and obj.__class__.__name__
isinstance(obj, K) == K \in obj.isa
class_name(obj) == obj.cls

\* (a chain of tests that does not know numpy arrays)
Dispatch_no_ndarray(obj) ==
    IF isinstance(obj, "InferenceData") THEN "InferenceData"
    ELSE IF isinstance(obj, "str") THEN "str"
    ELSE IF class_name(obj) = "StanFit4Model" THEN "StanFit4Model"
    ELSE IF class_name(obj) = "MultiTrace" THEN "MultiTrace"
    ELSE IF isinstance(obj, "Dataset") THEN "Dataset"
    ELSE IF isinstance(obj, "dict") THEN "dict"
    ELSE "ValueError"
\* the if / elif chains of convert_to_inference_data: the branch taken
Dispatch(obj) ==
    IF isinstance(obj, "InferenceData") THEN "InferenceData"
    ELSE IF isinstance(obj, "str") THEN "str"
    ELSE IF class_name(obj) = "StanFit4Model" THEN "StanFit4Model"
    ELSE IF class_name(obj) = "MultiTrace" THEN "MultiTrace"
    ELSE IF isinstance(obj, "Dataset") THEN "Dataset"
    ELSE IF isinstance(obj, "dict") THEN "dict"
    ELSE IF isinstance(obj, "ndarray") THEN "ndarray"
    ELSE "ValueError"

Unchanged(out, coords_val, dims_val) ==
    [out |-> out, coords_arg |-> coords_val, dims_arg |-> dims_val]

\* (hands back a copy of the container)
return_copy(obj) == [obj.val EXCEPT !.id = "new"]
\* line 44: return obj
return_obj(obj) == obj.val

\* InferenceData(**{group: dataset}) once the dataset is known
wrap_group(group, r) ==
    The({[out |-> IF IsRaise(d.out) THEN d.out
                  ELSE InferenceData(dict_set(EmptyDict, group, d.out)),
          coords_arg |-> d.coords_arg, dims_arg |-> d.dims_arg] : d \in {r}})

\* convert_to_inference_data(obj, group=, coords=, dims=)
convert_to_inference_data(obj, group, coords_val, dims_val) ==
    LET branch == Dispatch(obj)
    IN CASE branch = "InferenceData" -> Unchanged(return_obj(obj), coords_val, dims_val)
         [] branch = "str" -> Unchanged(from_netcdf(obj.val), coords_val, dims_val)
         [] branch = "StanFit4Model" ->
                The({Unchanged(r.out, r.coords_arg, r.dims_arg) :
                       r \in {pystan_to_inference_data(obj.val, coords_val, dims_val)}})
         [] branch = "MultiTrace" ->
                The({Unchanged(r.out, r.coords_arg, r.dims_arg) :
                       r \in {pymc3_to_inference_data(obj.val, None, None,
                                                       coords_val, dims_val)}})
         [] branch = "Dataset" -> wrap_group(group, Unchanged(obj.val, coords_val, dims_val))
         [] branch = "dict" -> wrap_group(group, dict_to_dataset(obj.val, coords_val, dims_val))
         [] branch = "ndarray" ->
                wrap_group(group,
                    dict_to_dataset(<<[key |-> "x", values |-> obj.val]>>, coords_val, dims_val))
         [] OTHER ->
                Unchanged(Raise("ValueError", "Can only convert xarray dataset, dict, netcdf file, numpy array, pystan fit, pymc3 trace to InferenceData"),
                          coords_val, dims_val)

\* (always reads the default group)
read_posterior(inference_data, group) == getattr_group(inference_data, "posterior")
\* line 110: dataset = getattr(inference_data, group, None)
read_group(inference_data, group) == getattr_group(inference_data, group)

\* convert_to_dataset(obj, group=, coords=, dims=)
convert_to_dataset(obj, group, coords_val, dims_val) ==
    The({IF IsRaise(r.out) THEN r
         ELSE The({[r EXCEPT !.out = IF dataset = None
                                     THEN Raise("ValueError", "Can not extract group")
                                     ELSE dataset] :
                     dataset \in {read_group(r.out, group)}}) :
           r \in {convert_to_inference_data(obj, group, coords_val, dims_val)}})

\* ------------------------------------------------------ _plot_posterior_op
Nothing == [ty |-> "nothing"]
Drawn(what, v) == [ty |-> "drawn", what |-> what, v |-> v]

Min(S) == CHOOSE n \in S : \A m \in S : n <= m

\* d.get(var_name, [])
entries_for(d, var_name) == IF var_name \in DOMAIN d THEN d[var_name] ELSE <<>>

\* display_ref_val (lines 116-138): what it draws, or what it raises
display_ref_val(ref_val, var_name, selection) ==
    IF ref_val = None THEN Nothing
    ELSE IF ref_val.ty = "dict"
    THEN (LET entries == entries_for(ref_val.v, var_name)
             hits == {i \in 1..Len(entries) :
                         \A k \in DOMAIN entries[i] :
                             k \in DOMAIN selection /\ selection[k] = entries[i][k]}
         IN IF hits = {}
            THEN Raise("UnboundLocalError", "local variable 'val' referenced before assignment")
            ELSE IF "ref_val" \notin DOMAIN entries[Min(hits)]
            THEN Raise("KeyError", "ref_val")
            ELSE Drawn("ref_val", entries[Min(hits)]["ref_val"]))
    ELSE IF ref_val.ty = "scalar" THEN Drawn("ref_val", ref_val.v)
    ELSE Raise("ValueError", "Argument ref_val must be None, a constant, or a dictionary")

\* display_rope (lines 140-162)
display_rope(rope, var_name, selection) ==
    IF rope = None THEN Nothing
    ELSE IF rope.ty = "dict"
    THEN (LET entries == entries_for(rope.v, var_name)
             hits == {i \in 1..Len(entries) :
                         \A k \in (DOMAIN entries[i]) \ {"rope"} :
                             k \in DOMAIN selection /\ selection[k] = entries[i][k]}
         IN IF hits = {} THEN Nothing
            ELSE IF "rope" \notin DOMAIN entries[Min(hits)]
            THEN Raise("KeyError", "rope")
            ELSE Drawn("rope", entries[Min(hits)]["rope"]))
    ELSE IF Len(rope.v) = 2 THEN Drawn("rope", rope.v)
    ELSE Raise("ValueError", "Argument rope must be None, a dictionary, or an iterable of length 2")

\* display_point_estimate (lines 164-184); values is a numpy array, which has
\* no iloc
display_point_estimate(point_estimate) ==
    IF point_estimate = "" THEN Nothing
    ELSE IF point_estimate \notin {"mode", "mean", "median"}
    THEN Raise("ValueError", "Point Estimate should be in mode, mean, median")
    ELSE IF point_estimate = "mode"
    THEN Raise("AttributeError", "'numpy.ndarray' object has no attribute 'iloc'")
    ELSE Drawn("point_estimate", point_estimate)

\* lines 211-229: the density curve or the histogram
draw_density(kind, dtype_kind) ==
    IF kind = "kde" /\ dtype_kind = "f" THEN Drawn("kde", "")
    ELSE Drawn("hist", IF dtype_kind = "i" THEN "range" ELSE "auto")

\* draws the annotations in order until one raises
RECURSIVE draw_all(_, _, _)
draw_all(steps, i, drawn) ==
    IF i > Len(steps) THEN [out |-> None, drawn |-> drawn]
    ELSE IF IsRaise(steps[i]) THEN [out |-> steps[i], drawn |-> drawn]
    ELSE draw_all(steps, i + 1,
                  IF steps[i] = Nothing THEN drawn ELSE Append(drawn, steps[i]))

\* _plot_posterior_op(values, var_name, selection, ...): the artists drawn on
\* the panel, in order, and the exception if one is raised
plot_posterior_op(var_name, selection, kind, dtype_kind, point_estimate, ref_val, rope) ==
    draw_all(<<draw_density(kind, dtype_kind),
               Drawn("axes", ""),
               Drawn("hpd", ""),
               display_point_estimate(point_estimate),
               IF ref_val # None THEN display_ref_val(ref_val, var_name, selection) ELSE Nothing,
               IF rope # None THEN display_rope(rope, var_name, selection) ELSE Nothing>>,
             1, <<>>)

\* ------------------------------------------------------------------ inputs
VarNames == {"a", "b"}
GroupNames == {"posterior", "prior", "posterior_predictive", "sample_stats"}

\* array shapes of rank 0..r with axes of length 1..MaxAxisLen
Shapes(r) == UNION {[1..n -> 1..MaxAxisLen] : n \in 0..r}

\* the same with empty axes as well
ShapesWithEmpty(r) == UNION {[1..n -> 0..MaxAxisLen] : n \in 0..r}

\* the coords dicts and dims dicts a caller may hold
CoordNames == {"chain", "school"}
CoordValues == {<<10, 11>>}
CoordsChoices ==
    UNION {[S -> CoordValues] : S \in SUBSET CoordNames}
      \cup {[k \in {"chain", "draw", "school"} |-> <<10, 11>>]}
DimLists == {<<"school">>, <<"chain", "draw", "school">>}
DimsChoices == UNION {[S -> DimLists] : S \in SUBSET VarNames}

Item(k, sh) == [key |-> k, values |-> ndarray(sh, "float64")]

\* dicts of arrays, as item sequences with distinct keys
Items(r) == {<<>>}
    \cup {<<Item(k, sh)>> : k \in VarNames, sh \in Shapes(r)}
    \cup {<<Item(k1, s1), Item(k2, s2)>> :
            <<k1, k2>> \in {p \in VarNames \X VarNames : p[1] # p[2]},
            <<s1, s2>> \in Shapes(r) \X Shapes(r)}

\* the datasets and containers the caller holds
CallerDataset(id, sh) == [dict_to_dataset(<<Item("a", sh)>>, None, None).out EXCEPT !.id = id]
Datasets == {CallerDataset("ds1", <<1, 2>>), CallerDataset("ds2", <<2, 2, 2>>)}
IDatas ==
    {[ty |-> "InferenceData", id |-> "idata",
      groups |-> [g \in S |-> IF g = "posterior" THEN CallerDataset("ds1", <<1, 2>>)
                              ELSE CallerDataset("ds2", <<2, 2, 2>>)]] :
        S \in SUBSET GroupNames}

\* netcdf files: a missing one and two that hold a container
Files ==
    {[path |-> "missing.nc", content |-> None]}
      \cup {[path |-> "trace.nc", content |-> [d EXCEPT !.id = "file"]] :
               d \in {i \in IDatas : DOMAIN i.groups \in {{"posterior"}, {"prior", "sample_stats"}}}}

\* PyMC3 traces: np.array(trace.get_values(v, combine=False)) per variable
\* and np.array(trace.get_sampler_stats(s, combine=False)) per statistic
Traces ==
    {[ty |-> "MultiTrace", varnames |-> <<"a", "b_log__", "b">>,
      transformed |-> {"b_log__"},
      values |-> [v \in {"a", "b_log__", "b"} |->
                    ndarray(<<nc, 2>> \o (IF v = "a" THEN tail ELSE <<>>), "float64")],
      stat_names |-> <<"diverging", "depth">>,
      sampler_stats |-> [st \in {"diverging", "depth"} |->
                           ndarray(<<nc, 2>>, IF st = "depth" THEN "int64" ELSE "bool")]] :
        nc \in 1..MaxChains, tail \in {<<>>, <<2>>}}

\* prior / posterior predictive samples: dicts of arrays of shape (draws, ...)
SampleDicts == {Dict(<<>>)} \cup {Dict(<<Item("a", sh)>>) : sh \in Shapes(1)}

\* the sampler parameters Stan reports: names ending in a double underscore
StanKeys == <<"accept_stat__", "stepsize__", "treedepth__", "n_leapfrog__",
             "divergent__", "energy__", "lp__", "int_time__">>
NutsKeys == SubSeq(StanKeys, 1, 6)
\* the NUTS parameters, and every selection of up to MaxKeys parameters
KeySeqs ==
    {NutsKeys} \cup
    UNION {{[i \in 1..n |-> StanKeys[f[i]]] :
               f \in {g \in [1..n -> 1..Len(StanKeys)] :
                          \A i, j \in 1..n : i < j => g[i] < g[j]}} :
              n \in 0..MaxKeys}

\* PyStan fits: fit.model_pars, fit.extract(.., permuted=False) per parameter
\* (draws, chains, ...), the integer declarations of the program and
\* fit.get_sampler_params(inc_warmup=False), one dict per chain
Fit(nd, nc, ks) ==
    [ty |-> "StanFit4Model", model_pars |-> <<"a", "b">>,
     extract |-> [v \in {"a", "b"} |-> <<nd, nc>> \o (IF v = "a" THEN <<nd>> ELSE <<>>)],
     int_decls |-> <<"b", "n">>,
     sampler_params |-> [c \in 1..nc |->
                            [i \in 1..Len(ks) |-> [key |-> ks[i],
                                                   values |-> ndarray(<<nd>>, "float64")]]]]
Fits == {Fit(nd, nc, ks) : nd \in 1..MaxAxisLen, nc \in 1..MaxChains, ks \in KeySeqs}
SomeFits == {Fit(2, nc, NutsKeys) : nc \in 1..MaxChains}

\* the objects handed to the convert functions: what isinstance says of
\* them, the name of their class and their content
Obj(isa, cls, val) == [isa |-> isa, cls |-> cls, val |-> val]
Objects ==
    {Obj({"InferenceData"}, "InferenceData", d) : d \in IDatas}
      \cup {Obj({"str"}, "str", f) : f \in Files}
      \cup {Obj({}, "StanFit4Model", f) : f \in SomeFits}
      \cup {Obj({}, "MultiTrace", t) : t \in Traces}
      \cup {Obj({"Dataset"}, "Dataset", d) : d \in Datasets}
      \cup {Obj({"dict"}, "dict", d) : d \in Items(MaxDictRank - 1)}
      \cup {Obj({"dict"}, "OrderedDict", <<Item("a", <<2, 2>>), Item("b", <<1, 2, 2>>)>>)}
      \cup {Obj({"ndarray"}, "ndarray", ndarray(sh, "float64")) : sh \in Shapes(MaxRank)}
      \cup {Obj({}, c, None) : c \in {"list", "int", "NoneType"}}

\* the panels and annotation arguments of the posterior plot
PlotVars == {"mu", "tau"}
Selections == {EmptyDict} \cup {[k \in {"school"} |-> v] : v \in {"A", "B"}}
Entries(value_key, value) ==
    UNION {{[k \in S |-> IF k = value_key THEN value ELSE v] : v \in {"A", "B"}} :
              S \in SUBSET {"school", value_key}}
EntryLists(value_key, value, n) == UNION {[1..m -> Entries(value_key, value)] : m \in 0..n}
RefVals ==
    {None, [ty |-> "scalar", v |-> 0], [ty |-> "list", v |-> <<0, 1>>]}
      \cup {Dict(EmptyDict)}
      \cup {Dict([k \in {"mu"} |-> l]) : l \in EntryLists("ref_val", 0, MaxEntries)}
Ropes ==
    {None, [ty |-> "tuple", v |-> <<-1, 1>>], [ty |-> "tuple", v |-> <<-1, 0, 1>>]}
      \cup {Dict(EmptyDict)}
      \cup {Dict([k \in {"mu"} |-> l]) : l \in EntryLists("rope", <<-1, 1>>, 1)}

\* what the caller passes for coords / dims: nothing or its own object
CoordsArgs == {None, Dict(coords)}
DimsArgs == {None, Dict(dims)}

\* ------------------------------------------------------------------ actions
Init ==
    /\ coords \in CoordsChoices
    /\ dims \in DimsChoices
    /\ call = [fn |-> "none"]
    /\ ret = None

Idle == call.fn = "none"

\* the caller has looked at the result and goes on
TakeResult ==
    /\ ~Idle
    /\ call' = [fn |-> "none"]
    /\ ret' = None
    /\ UNCHANGED <<coords, dims>>

NumpyToDataArray ==
    /\ Idle
    /\ \E sh \in ShapesWithEmpty(MaxRank), var_name \in VarNames, cv \in CoordsArgs,
       dk \in {"None"} \cup DOMAIN dims :
        LET dv == IF dk = "None" THEN None ELSE List(dims[dk])
            ary == ndarray(sh, "float64")
        IN \E r \in {numpy_to_data_array(ary, var_name, cv, dv)} :
           /\ call' = [fn |-> "numpy_to_data_array", ary |-> ary, var_name |-> var_name,
                       coords |-> cv, dims |-> dv]
           /\ ret' = [out |-> r.out, warn |-> r.warn]
           /\ coords' = IF cv = None THEN coords ELSE r.coords_arg.v
           /\ dims' = IF dv = None THEN dims ELSE [dims EXCEPT ![dk] = r.dims_arg.v]

DictToDataset ==
    /\ Idle
    /\ \E data \in Items(MaxDictRank), cv \in CoordsArgs, dv \in DimsArgs :
        \E r \in {dict_to_dataset(data, cv, dv)} :
           /\ call' = [fn |-> "dict_to_dataset", data |-> data, coords |-> cv, dims |-> dv]
           /\ ret' = [out |-> r.out, warn |-> r.warn]
           /\ coords' = IF cv = None THEN coords ELSE r.coords_arg.v
           /\ dims' = IF dv = None THEN dims ELSE r.dims_arg.v

ConvertToInferenceData ==
    /\ Idle
    /\ \E obj \in Objects, group \in GroupNames, cv \in CoordsArgs, dv \in DimsArgs :
        \E r \in {convert_to_inference_data(obj, group, cv, dv)} :
           /\ call' = [fn |-> "convert_to_inference_data", obj |-> obj, group |-> group,
                       coords |-> cv, dims |-> dv]
           /\ ret' = [out |-> r.out]
           /\ coords' = IF cv = None THEN coords ELSE r.coords_arg.v
           /\ dims' = IF dv = None THEN dims ELSE r.dims_arg.v

ConvertToDataset ==
    /\ Idle
    /\ \E obj \in Objects, group \in GroupNames, cv \in CoordsArgs, dv \in DimsArgs :
        \E r \in {convert_to_dataset(obj, group, cv, dv)} :
           /\ call' = [fn |-> "convert_to_dataset", obj |-> obj, group |-> group,
                       coords |-> cv, dims |-> dv]
           /\ ret' = [out |-> r.out]
           /\ coords' = IF cv = None THEN coords ELSE r.coords_arg.v
           /\ dims' = IF dv = None THEN dims ELSE r.dims_arg.v

PyMC3ToInferenceData ==
    /\ Idle
    /\ \E trace \in {None} \cup Traces, prior \in {None} \cup SampleDicts,
          posterior_predictive \in {None} \cup SampleDicts,
          cv \in CoordsArgs, dv \in DimsArgs :
        \E r \in {pymc3_to_inference_data(trace, prior, posterior_predictive, cv, dv)} :
           /\ call' = [fn |-> "pymc3_to_inference_data", trace |-> trace, prior |-> prior,
                       posterior_predictive |-> posterior_predictive,
                       coords |-> cv, dims |-> dv]
           /\ ret' = [out |-> r.out, kwargs |-> r.kwargs, called |-> r.called]
           /\ coords' = IF cv = None THEN coords ELSE r.coords_arg.v
           /\ dims' = IF dv = None THEN dims ELSE r.dims_arg.v

PyStanToInferenceData ==
    /\ Idle
    /\ \E fit \in Fits, cv \in CoordsArgs, dv \in DimsArgs :
        \E r \in {pystan_to_inference_data(fit, cv, dv)} :
           /\ call' = [fn |-> "pystan_to_inference_data", fit |-> fit,
                       coords |-> cv, dims |-> dv]
           /\ ret' = [out |-> r.out, kwargs |-> r.kwargs, called |-> r.called]
           /\ coords' = IF cv = None THEN coords ELSE r.coords_arg.v
           /\ dims' = IF dv = None THEN dims ELSE r.dims_arg.v

PlotPosteriorOp ==
    /\ Idle
    /\ \E var_name \in PlotVars, selection \in Selections, kind \in {"kde", "hist"},
          dtype_kind \in {"f", "i"},
          point_estimate \in {"mean", "median", "mode", "", "max"},
          ref_val \in RefVals, rope \in Ropes :
        \E r \in {plot_posterior_op(var_name, selection, kind, dtype_kind,
                                   point_estimate, ref_val, rope)} :
           /\ call' = [fn |-> "_plot_posterior_op", var_name |-> var_name,
                       selection |-> selection, kind |-> kind, dtype_kind |-> dtype_kind,
                       point_estimate |-> point_estimate, ref_val |-> ref_val, rope |-> rope]
           /\ ret' = [out |-> r.out, drawn |-> r.drawn]
           /\ UNCHANGED <<coords, dims>>

\* the array and dict conversions
Next ==
    \/ TakeResult
    \/ NumpyToDataArray
    \/ DictToDataset

Spec == Init /\ [][Next]_vars

\* the dispatching entry points
NextConvert ==
    \/ TakeResult
    \/ ConvertToInferenceData
    \/ ConvertToDataset

SpecConvert == Init /\ [][NextConvert]_vars

\* the PyMC3 converter
NextPyMC3 ==
    \/ TakeResult
    \/ PyMC3ToInferenceData

SpecPyMC3 == Init /\ [][NextPyMC3]_vars

\* the PyStan converter
NextPyStan ==
    \/ TakeResult
    \/ PyStanToInferenceData

SpecPyStan == Init /\ [][NextPyStan]_vars

\* the posterior plot; it takes no coords or dims dict
InitPlot ==
    /\ coords = EmptyDict
    /\ dims = EmptyDict
    /\ call = [fn |-> "none"]
    /\ ret = None

NextPlot ==
    \/ TakeResult
    \/ PlotPosteriorOp

SpecPlot == InitPlot /\ [][NextPlot]_vars

\* ------------------------------------------------------------------ claims
IsCall(fn) == call.fn = fn
Returned(ty) == ret.out.ty = ty

\* the shape a rank < 3 array is given by the promotion the claim spells out,
\* with the added trailing axis removed again
C5_ExpectedLowRankShape(shape) ==
    CASE Len(shape) = 0 -> <<1, 1>>
      [] Len(shape) = 1 -> <<1, shape[1]>>
      [] OTHER -> shape

\* C5: numpy_to_data_array with dims=None infers the dims from the shape
\* alone.  Rank < 3: the array is promoted to rank 3 and the added axis is
\* removed again, dims are exactly (chain, draw).  Rank >= 3: dims are
\* (chain, draw, <var_name>_dim_0, ...) and no axis is removed.  The number of
\* dims is the rank of the returned data and every coordinate is 0..len-1 of
\* its axis, whatever coords were passed.
C5_DimsInferredFromShape ==
    (IsCall("numpy_to_data_array") /\ call.dims = None) =>
        /\ Returned("DataArray")
        /\ LET sh == call.ary.shape
               out == ret.out
           IN /\ Len(sh) < 3 =>
                    /\ atleast_3d(sh) = C5_ExpectedLowRankShape(sh) \o <<1>>
                    /\ out.shape = C5_ExpectedLowRankShape(sh)
                    /\ out.dims = <<"chain", "draw">>
              /\ Len(sh) >= 3 =>
                    /\ out.shape = sh
                    /\ out.dims = <<"chain", "draw">> \o
                           [i \in 1..(Len(sh) - 2) |->
                               call.var_name \o "_dim_" \o ToString(i - 1)]
              /\ Len(out.dims) = Len(out.shape)
              /\ DOMAIN out.coords = Range(out.dims)
              /\ \A i \in 1..Len(out.dims) :
                    out.coords[out.dims[i]] = [j \in 1..out.shape[i] |-> j - 1]

\* a rank-3 array whose last axis has length 1 keeps it, although the caller
\* passed coords that label chain
C5_Witness ==
    /\ IsCall("numpy_to_data_array") /\ call.dims = None
    /\ call.coords # None /\ "chain" \in DOMAIN call.coords.v
    /\ Len(call.ary.shape) = 3 /\ call.ary.shape[3] = 1
    /\ Returned("DataArray") /\ Len(ret.out.dims) = 3

\* C8: a conversion leaves the caller's coords dict and dims lists as they
\* were, and within one dict_to_dataset call every variable is converted as
\* it would be alone, from its own array and the coords and dims as passed.
C8_ArgumentsUnchanged ==
    [][/\ coords' = coords
       /\ dims' = dims
       /\ (call'.fn = "dict_to_dataset" /\ ret'.out.ty = "Dataset") =>
            \A i \in 1..Len(call'.data) :
                LET key == call'.data[i].key
                    alone == numpy_to_data_array(
                                 call'.data[i].values, key, call'.coords,
                                 IF call'.dims # None /\ key \in DOMAIN call'.dims.v
                                 THEN List(call'.dims.v[key]) ELSE None)
                IN ret'.out.data_vars[key] = alone.out]_vars

\* two variables converted in one call with the caller's coords (which do not
\* label chain) and dims: each has the chain coordinate of its own shape
C8_Witness ==
    /\ IsCall("dict_to_dataset") /\ Returned("Dataset")
    /\ call.coords # None /\ "chain" \notin DOMAIN call.coords.v
    /\ call.dims # None /\ DOMAIN call.dims.v # {}
    /\ Len(call.data) = 2
    /\ call.data[1].key \in DOMAIN call.dims.v
    /\ ret.out.data_vars["a"].coords["chain"] # ret.out.data_vars["b"].coords["chain"]

AsInferenceData(d) == Obj({"InferenceData"}, "InferenceData", d)
AsDataset(d) == Obj({"Dataset"}, "Dataset", d)

\* C1: convert_to_inference_data returns an InferenceData object itself,
\* unchanged, whatever group, coords and dims are passed; applied to its own
\* result it returns that result again.
C1_InferenceDataReturnedUnchanged ==
    IsCall("convert_to_inference_data") =>
        /\ isinstance(call.obj, "InferenceData") => ret.out = call.obj.val
        /\ Returned("InferenceData") =>
              \A g \in GroupNames :
                  convert_to_inference_data(AsInferenceData(ret.out), g,
                                            call.coords, call.dims).out = ret.out

\* the caller's container comes back although the group asked for is not one
\* of its groups and coords and dims are passed
C1_Witness ==
    /\ IsCall("convert_to_inference_data")
    /\ isinstance(call.obj, "InferenceData")
    /\ call.obj.val.groups # EmptyDict
    /\ call.group \notin DOMAIN call.obj.val.groups
    /\ call.coords # None /\ call.dims # None
    /\ ret.out.id = "idata"

\* C2: convert_to_dataset returns a Dataset itself, unchanged, for every group
\* name, and applied to its own result with the same group it returns that
\* result again.
C2_DatasetReturnedUnchanged ==
    IsCall("convert_to_dataset") =>
        /\ isinstance(call.obj, "Dataset") => ret.out = call.obj.val
        /\ ~IsRaise(ret.out) =>
              /\ Returned("Dataset")
              /\ convert_to_dataset(AsDataset(ret.out), call.group,
                                    call.coords, call.dims).out = ret.out

\* the caller's dataset comes back through a group other than the default
C2_Witness ==
    /\ IsCall("convert_to_dataset")
    /\ isinstance(call.obj, "Dataset")
    /\ call.group = "sample_stats"
    /\ Returned("Dataset") /\ ret.out.id = "ds2"

\* the seven kinds of object the claim lists, in its order, and the
\* conversion each is sent to
C3_Kinds(obj) ==
    <<"InferenceData" \in obj.isa, "str" \in obj.isa, obj.cls = "StanFit4Model",
      obj.cls = "MultiTrace", "Dataset" \in obj.isa, "dict" \in obj.isa,
      "ndarray" \in obj.isa>>
C3_Conversion(n, obj, group, cv, dv) ==
    CASE n = 1 -> obj.val
      [] n = 2 -> from_netcdf(obj.val)
      [] n = 3 -> pystan_to_inference_data(obj.val, cv, dv).out
      [] n = 4 -> pymc3_to_inference_data(obj.val, None, None, cv, dv).out
      [] n = 5 -> InferenceData(dict_set(EmptyDict, group, obj.val))
      [] n = 6 -> wrap_group(group, dict_to_dataset(obj.val, cv, dv)).out
      [] n = 7 -> wrap_group(group, dict_to_dataset(<<[key |-> "x", values |-> obj.val]>>,
                                                    cv, dv)).out
C3_IsConvertError(out) ==
    IsRaise(out) /\ out.exc = "ValueError" /\ SubSeq(out.msg, 1, 16) = "Can only convert"

C4_Attribute(g) ==
    CASE g = "posterior" -> call.trace
      [] g = "sample_stats" -> call.trace
      [] g = "posterior_predictive" -> call.posterior_predictive
      [] g = "prior" -> call.prior

\* C4: a method decorated with requires returns None without running the
\* wrapped function when the named attribute is None and the function's result
\* otherwise; PyMC3Converter.to_inference_data builds posterior and
\* sample_stats exactly when trace is not None, posterior_predictive exactly
\* when posterior_predictive is not None, prior exactly when prior is not
\* None, and passes None for the other groups.
C4_GroupsBuiltWhenRequired ==
    IsCall("pymc3_to_inference_data") =>
        /\ \A g \in ret.called : C4_Attribute(g) # None
        /\ \A g \in DOMAIN ret.kwargs :
              IF C4_Attribute(g) = None
              THEN ret.kwargs[g] = None
              ELSE g \in ret.called /\ ret.kwargs[g].ty = "Dataset"
        /\ ~IsRaise(ret.out) =>
              /\ DOMAIN ret.kwargs = GroupNames
              /\ Returned("InferenceData")
              /\ DOMAIN ret.out.groups = {g \in GroupNames : C4_Attribute(g) # None}

\* only the prior is given: only the prior group is built
C4_Witness ==
    /\ IsCall("pymc3_to_inference_data")
    /\ call.trace = None /\ call.posterior_predictive = None /\ call.prior # None
    /\ Returned("InferenceData")
    /\ ret.called = {"prior"}
    /\ DOMAIN ret.out.groups = {"prior"}

C6_EndsInDoubleUnderscore(n) == Len(n) >= 2 /\ SubSeq(n, Len(n) - 1, Len(n)) = "__"

\* C6: PyStanConverter.sample_stats_to_xarray gives every sampler parameter
\* key of the first chain exactly one variable, named as the key without its
\* trailing double underscore, except divergent__ which becomes diverging; no
\* name ends in a double underscore; every variable has one row per chain;
\* divergent__ is cast to bool, n_leapfrog__ and treedepth__ to int64.
C6_SampleStatsRenamed ==
    (IsCall("pystan_to_inference_data") /\ "sample_stats" \in DOMAIN ret.kwargs) =>
        LET params == call.fit.sampler_params
            stats == ret.kwargs["sample_stats"].data_vars
            NameOf(k, n) == IF k = "divergent__" THEN n = "diverging" ELSE n \o "__" = k
        IN /\ ret.kwargs["sample_stats"].ty = "Dataset"
           /\ Cardinality(DOMAIN stats) = Len(params[1])
           /\ \A i \in 1..Len(params[1]) :
                 LET k == params[1][i].key
                     names == {n \in DOMAIN stats : NameOf(k, n)}
                 IN /\ Cardinality(names) = 1
                    /\ \A n \in names :
                          /\ stats[n].shape = <<Len(params), params[1][i].values.shape[1]>>
                          /\ k = "divergent__" => stats[n].dtype = "bool"
                          /\ k \in {"n_leapfrog__", "treedepth__"} => stats[n].dtype = "int64"
           /\ \A n \in DOMAIN stats : ~C6_EndsInDoubleUnderscore(n)

\* two chains that report divergent__ and a parameter rename_key does not list
C6_Witness ==
    /\ IsCall("pystan_to_inference_data")
    /\ Returned("InferenceData")
    /\ Len(call.fit.sampler_params) = 2
    /\ DOMAIN ret.out.groups["sample_stats"].data_vars = {"diverging", "int_time"}

\* the entries the claim lets supply the value: those whose keys other than
\* the value key are all in the selection with equal values
C7_Matching(entries, selection, value_key) ==
    {i \in 1..Len(entries) :
        \A k \in (DOMAIN entries[i]) \ {value_key} :
            k \in DOMAIN selection /\ selection[k] = entries[i][k]}

\* C7: a dictionary-valued ref_val is resolved like a dictionary-valued rope:
\* the first entry under var_name whose coordinate keys all agree with the
\* panel's selection supplies the value drawn; when no entry matches, nothing
\* is drawn for the reference value and no error is raised.
C7_RefValResolvedLikeRope ==
    (/\ IsCall("_plot_posterior_op")
     /\ call.ref_val.ty = "dict"
     /\ call.point_estimate \in {"mean", "median", ""}) =>
        LET entries == entries_for(call.ref_val.v, call.var_name)
            hits == C7_Matching(entries, call.selection, "ref_val")
            refs == {ret.drawn[i] : i \in {j \in 1..Len(ret.drawn) :
                                              ret.drawn[j].what = "ref_val"}}
        IN IF hits = {}
           THEN /\ refs = {}
                /\ ~(IsRaise(ret.out) /\ ret.out.exc \in {"UnboundLocalError", "KeyError"}
                        /\ ret.out.msg # "rope")
           ELSE "ref_val" \in DOMAIN entries[Min(hits)] =>
                   refs = {Drawn("ref_val", entries[Min(hits)]["ref_val"])}

====
